---- MODULE Spec2Model ----
(***************************************************************************)
(* Model of the blokus geometry core: blokus/point.py (Point) and          *)
(* blokus/shape.py (Shape).  Both classes are immutable values; every      *)
(* method is modelled by an operator computed the way the code computes    *)
(* it, and every call is an action that records its arguments and result.  *)
(***************************************************************************)
EXTENDS Integers, FiniteSets, Sequences, TLC

VARIABLES pc, point, around, degrees, x, y, self, other, lower, upper, ret,
          raised, piece

vars == <<pc, point, around, degrees, x, y, self, other, lower, upper, ret,
          raised, piece>>

(***************************************************************************)
(* Bounds of the model.                                                    *)
(***************************************************************************)
\* point coordinates and axis / boundary values range over -MaxCoord..MaxCoord
MaxCoord == 2
\* degrees range over the multiples of 45 in -45*MaxDeg..45*MaxDeg
MaxDeg == 10
\* piece origins and shape pivots range over -MaxOrigin..MaxOrigin
MaxOrigin == 1
\* free-form shapes are drawn from the grid 0..MaxFree x 0..MaxFree
MaxFree == 2
\* and have at most MaxSize points
MaxSize == 2

(***************************************************************************)
(* Values.                                                                 *)
(***************************************************************************)
\* Optional[int]: None is the empty tuple, a given integer v is <<v>>
None == << >>

Some(v) == <<v>>

Point(a, b) == [x |-> a, y |-> b]

\* a Python set value: its type (set or frozenset) and its elements.  The
\* two types compare equal when their elements do, but only a frozenset is
\* hashable and only a set is accepted as the receiver of set.union
PySet(S) == [type |-> "set", elems |-> S]

Frozenset(S) == [type |-> "frozenset", elems |-> S]

Shape(o, ps) == [origin |-> o, points |-> ps]

\* the exception raised by Point.rotate
ValueError == [error |-> "ValueError"]

\* the exception raised when a value of the wrong type is used
TypeError == [error |-> "TypeError"]

\* the value of ret before any call has returned
NoReturn == [error |-> "none"]

Coords == (0 - MaxCoord)..MaxCoord

OptInts == {None} \cup {Some(v) : v \in Coords}

\* the points used by the documented examples and the unit tests
ExamplePoints == {Point(8, 10), Point(7, 7), Point(4, 4), Point(5, 5)}

Points == {Point(a, b) : a \in Coords, b \in Coords} \cup ExamplePoints

Degrees == {45 * k : k \in (0 - MaxDeg)..MaxDeg}

(***************************************************************************)
(* blokus/point.py                                                         *)
(***************************************************************************)
\* Point_corners with the y offset of the first corner left out
Point_corners_typo(p) ==
    Frozenset({ Point(p.x + 1, p.y), Point(p.x - 1, p.y + 1),
                Point(p.x - 1, p.y - 1), Point(p.x + 1, p.y - 1) })

Point_corners(p) ==
    Frozenset({ Point(p.x + 1, p.y + 1), Point(p.x - 1, p.y + 1),
                Point(p.x - 1, p.y - 1), Point(p.x + 1, p.y - 1) })

Point_sides(p) ==
    Frozenset({ Point(p.x + 1, p.y), Point(p.x, p.y + 1),
                Point(p.x - 1, p.y), Point(p.x, p.y - 1) })

Point_is_corner(p, q) == q \in Point_corners(p).elems

Point_is_side(p, q) == q \in Point_sides(p).elems

\* Python's `v or d` for an Optional[int] v: None and 0 are both falsy
OrDefault(v, d) == IF v = None \/ v[1] = 0 THEN d ELSE v[1]

Point_reflect(p, ax, ay) ==
    LET x1 == OrDefault(ax, p.x)
        y1 == OrDefault(ay, p.y)
        dx == x1 - p.x
        dy == y1 - p.y
    IN  Point(x1 + dx, y1 + dy)

\* the guard of Point.rotate: degrees is reduced mod 360 and must be a
\* multiple of 90
Rotate_raises(d) == (d % 360) \notin {0, 90, 180, 270}

RECURSIVE Rotate_steps_typo(_, _, _)
\* Rotate_steps with dy written where dx belongs in the new y coordinate
Rotate_steps_typo(p, a, d) ==
    LET deg == d % 360
        dy == p.y - a.y
    IN  IF deg = 0
        THEN Point(p.x, p.y)
        ELSE Rotate_steps_typo(Point(a.x + dy, a.y - dy), a, deg - 90)

RECURSIVE Rotate_steps_ccw(_, _, _)
\* Rotate_steps turning the other way round
Rotate_steps_ccw(p, a, d) ==
    LET deg == d % 360
        dx == p.x - a.x
        dy == p.y - a.y
    IN  IF deg = 0
        THEN Point(p.x, p.y)
        ELSE Rotate_steps_ccw(Point(a.x - dy, a.y + dx), a, deg - 90)

RECURSIVE Rotate_steps(_, _, _)
\* the recursion of Point.rotate on an accepted degrees value
Rotate_steps(p, a, d) ==
    LET deg == d % 360
        dx == p.x - a.x
        dy == p.y - a.y
    IN  IF deg = 0
        THEN Point(p.x, p.y)
        ELSE Rotate_steps(Point(a.x + dy, a.y - dx), a, deg - 90)

Point_rotate(p, a, d) ==
    IF Rotate_raises(d) THEN ValueError ELSE Rotate_steps(p, a, d)

(***************************************************************************)
(* blokus/shape.py                                                         *)
(***************************************************************************)
Min(S) == CHOOSE m \in S : \A n \in S : m <= n

Max(S) == CHOOSE m \in S : \A n \in S : m >= n

\* Shape_is_within testing the bounds for truth instead of `is None`, so
\* that an explicit 0 counts as omitted
Shape_is_within_falsy_zero(s, lo, up) ==
    LET l == IF lo = None \/ lo[1] = 0
             THEN Min({Min({p.x, p.y}) : p \in s.points.elems})
             ELSE lo[1]
        u == IF up = None \/ up[1] = 0
             THEN Max({Max({p.x, p.y}) : p \in s.points.elems})
             ELSE up[1]
    IN  \A p \in s.points.elems :
            (l <= p.x /\ p.x <= u) /\ (l <= p.y /\ p.y <= u)

\* an omitted bound defaults to the least / greatest coordinate of the shape
Shape_is_within(s, lo, up) ==
    LET l == IF lo = None
             THEN Min({Min({p.x, p.y}) : p \in s.points.elems})
             ELSE lo[1]
        u == IF up = None
             THEN Max({Max({p.x, p.y}) : p \in s.points.elems})
             ELSE up[1]
    IN  \A p \in s.points.elems :
            (l <= p.x /\ p.x <= u) /\ (l <= p.y /\ p.y <= u)

\* set.union(*args) is the method of the class set called with args[0] as
\* its receiver: it raises TypeError when there is no argument and when the
\* receiver is not a set.  The receiver is the first value the generator
\* yields; the arguments of one call all have the same type.
Set_union_raises(args) == args = {} \/ \E a \in args : a.type # "set"

Set_union(args) ==
    IF Set_union_raises(args)
    THEN TypeError
    ELSE PySet(UNION {a.elems : a \in args})

Shape_sides(s) ==
    LET all_sides == Set_union({Point_sides(p) : p \in s.points.elems})
    IN  IF all_sides = TypeError
        THEN TypeError
        ELSE PySet(all_sides.elems \ s.points.elems)

Shape_corners(s) ==
    LET all_corners == Set_union({Point_corners(p) : p \in s.points.elems})
    IN  IF all_corners = TypeError \/ Shape_sides(s) = TypeError
        THEN TypeError
        ELSE PySet((all_corners.elems \ Shape_sides(s).elems)
                       \ s.points.elems)

Shape_can_connect(s, o) ==
    IF Shape_corners(s) = TypeError
    THEN TypeError
    ELSE IF Shape_corners(s).elems \cap o.points.elems = {}
         THEN FALSE
         ELSE IF Shape_sides(s) = TypeError
              THEN TypeError
              ELSE Shape_sides(s).elems \cap o.points.elems = {}

Shape_size(s) == Cardinality(s.points.elems)

\* Shape_reflect that reflects the points and keeps the old origin
Shape_reflect_keeps_origin(s, ax, ay) ==
    Shape(s.origin, PySet({Point_reflect(p, ax, ay) : p \in s.points.elems}))

Shape_reflect(s, ax, ay) ==
    Shape(Point_reflect(s.origin, ax, ay),
          PySet({Point_reflect(p, ax, ay) : p \in s.points.elems}))

\* the origin is rotated first, so a rejected degrees value raises before
\* any member point is touched
Shape_rotate(s, a, d) ==
    IF Point_rotate(s.origin, a, d) = ValueError
    THEN ValueError
    ELSE Shape(Point_rotate(s.origin, a, d),
               PySet({Point_rotate(p, a, d) : p \in s.points.elems}))

\* hash(shape) hashes the tuple (origin, points): it raises TypeError when
\* points is a set, which is unhashable
Hash_raises(s) == s.points.type = "set"

\* frozenset(valid) hashes every shape the generator yields
Frozenset_raises(valid) == \E t \in valid : Hash_raises(t)

\* the transformations that pass the boundary filter (the generator `valid`)
Arrangements_valid(s, lo, up) ==
    LET reflection == Shape_reflect(s, Some(s.origin.x), None)
        transformations ==
            { Shape_rotate(s, s.origin, 0),
              Shape_rotate(s, s.origin, 90),
              Shape_rotate(s, s.origin, 180),
              Shape_rotate(s, s.origin, 270),
              Shape_rotate(reflection, reflection.origin, 0),
              Shape_rotate(reflection, reflection.origin, 90),
              Shape_rotate(reflection, reflection.origin, 180),
              Shape_rotate(reflection, reflection.origin, 270) }
    IN  {t \in transformations : Shape_is_within(t, lo, up)}

Shape_arrangements(s, lo, up) ==
    IF Frozenset_raises(Arrangements_valid(s, lo, up))
    THEN TypeError
    ELSE Frozenset(Arrangements_valid(s, lo, up))

I1(origin) ==
    Shape(origin, PySet({ origin }))

I2(origin) ==
    Shape(origin, PySet({ origin,
                          Point(origin.x + 1, origin.y) }))

I3(origin) ==
    Shape(origin, PySet({ origin,
                          Point(origin.x + 1, origin.y),
                          Point(origin.x + 2, origin.y) }))

V3(origin) ==
    Shape(origin, PySet({ origin,
                          Point(origin.x, origin.y + 1),
                          Point(origin.x + 1, origin.y) }))

I4(origin) ==
    Shape(origin, PySet({ origin,
                          Point(origin.x + 1, origin.y),
                          Point(origin.x + 2, origin.y),
                          Point(origin.x + 3, origin.y) }))

L4(origin) ==
    Shape(origin, PySet({ origin,
                          Point(origin.x, origin.y + 1),
                          Point(origin.x + 1, origin.y),
                          Point(origin.x + 2, origin.y) }))

O4(origin) ==
    Shape(origin, PySet({ origin,
                          Point(origin.x, origin.y + 1),
                          Point(origin.x + 1, origin.y),
                          Point(origin.x + 1, origin.y + 1) }))

T4(origin) ==
    Shape(origin, PySet({ origin,
                          Point(origin.x - 1, origin.y),
                          Point(origin.x + 1, origin.y),
                          Point(origin.x, origin.y + 1) }))

Z4(origin) ==
    Shape(origin, PySet({ origin,
                          Point(origin.x + 1, origin.y),
                          Point(origin.x + 1, origin.y + 1),
                          Point(origin.x + 2, origin.y + 1) }))

F(origin) ==
    Shape(origin, PySet({ origin,
                          Point(origin.x + 1, origin.y),
                          Point(origin.x + 1, origin.y + 1),
                          Point(origin.x + 2, origin.y + 1),
                          Point(origin.x + 1, origin.y + 2) }))

I5(origin) ==
    Shape(origin, PySet({ origin,
                          Point(origin.x + 1, origin.y),
                          Point(origin.x + 2, origin.y),
                          Point(origin.x + 3, origin.y),
                          Point(origin.x + 4, origin.y) }))

L5(origin) ==
    Shape(origin, PySet({ origin,
                          Point(origin.x, origin.y + 1),
                          Point(origin.x + 1, origin.y),
                          Point(origin.x + 2, origin.y),
                          Point(origin.x + 3, origin.y) }))

N(origin) ==
    Shape(origin, PySet({ origin,
                          Point(origin.x + 1, origin.y),
                          Point(origin.x + 2, origin.y),
                          Point(origin.x + 2, origin.y + 1),
                          Point(origin.x + 3, origin.y + 1) }))

P(origin) ==
    Shape(origin, PySet({ origin,
                          Point(origin.x + 1, origin.y),
                          Point(origin.x + 1, origin.y + 1),
                          Point(origin.x + 2, origin.y),
                          Point(origin.x + 2, origin.y + 1) }))

U(origin) ==
    Shape(origin, PySet({ origin,
                          Point(origin.x - 1, origin.y),
                          Point(origin.x - 1, origin.y + 1),
                          Point(origin.x + 1, origin.y),
                          Point(origin.x + 1, origin.y + 1) }))

V5(origin) ==
    Shape(origin, PySet({ origin,
                          Point(origin.x, origin.y + 1),
                          Point(origin.x, origin.y + 2),
                          Point(origin.x + 1, origin.y),
                          Point(origin.x + 2, origin.y) }))

W(origin) ==
    Shape(origin, PySet({ origin,
                          Point(origin.x - 1, origin.y - 1),
                          Point(origin.x, origin.y - 1),
                          Point(origin.x + 1, origin.y),
                          Point(origin.x + 1, origin.y + 1) }))

X(origin) ==
    Shape(origin, PySet({ origin,
                          Point(origin.x - 1, origin.y),
                          Point(origin.x + 1, origin.y),
                          Point(origin.x, origin.y - 1),
                          Point(origin.x, origin.y + 1) }))

Y(origin) ==
    Shape(origin, PySet({ origin,
                          Point(origin.x - 1, origin.y),
                          Point(origin.x, origin.y + 1),
                          Point(origin.x + 1, origin.y),
                          Point(origin.x + 2, origin.y) }))

Z5(origin) ==
    Shape(origin, PySet({ origin,
                          Point(origin.x - 1, origin.y - 1),
                          Point(origin.x, origin.y - 1),
                          Point(origin.x, origin.y + 1),
                          Point(origin.x + 1, origin.y + 1) }))

(***************************************************************************)
(* Inputs.                                                                 *)
(***************************************************************************)
Origins == {Point(a, b) : a \in (0 - MaxOrigin)..MaxOrigin,
                          b \in (0 - MaxOrigin)..MaxOrigin}

PieceNames == { "I1", "I2", "I3", "V3", "I4", "L4", "O4", "T4", "Z4", "F",
                "I5", "L5", "N", "P", "U", "V5", "W", "X", "Y", "Z5" }

\* the piece table: the factory of each name
Piece(name, origin) ==
    CASE name = "I1" -> I1(origin) [] name = "I2" -> I2(origin)
      [] name = "I3" -> I3(origin) [] name = "V3" -> V3(origin)
      [] name = "I4" -> I4(origin) [] name = "L4" -> L4(origin)
      [] name = "O4" -> O4(origin) [] name = "T4" -> T4(origin)
      [] name = "Z4" -> Z4(origin) [] name = "F" -> F(origin)
      [] name = "I5" -> I5(origin) [] name = "L5" -> L5(origin)
      [] name = "N" -> N(origin) [] name = "P" -> P(origin)
      [] name = "U" -> U(origin) [] name = "V5" -> V5(origin)
      [] name = "W" -> W(origin) [] name = "X" -> X(origin)
      [] name = "Y" -> Y(origin) [] name = "Z5" -> Z5(origin)

PieceShapes == {Piece(n, o) : n \in PieceNames, o \in Origins}

FreeGrid == {Point(a, b) : a \in 0..MaxFree, b \in 0..MaxFree}

PointSets == {ps \in SUBSET FreeGrid : ps # {} /\ Cardinality(ps) <= MaxSize}

\* shapes built directly from a frozenset of points, with any member as
\* origin
FreeShapes == UNION {{Shape(o, Frozenset(ps)) : o \in ps} : ps \in PointSets}

Shapes == PieceShapes \cup FreeShapes

(***************************************************************************)
(* Calls.  The receiver is drawn by Init; each action is one call on it    *)
(* with arguments drawn from the input sets, and records the result.       *)
(***************************************************************************)
NoArgs ==
    /\ around = Point(0, 0)
    /\ degrees = 0
    /\ x = None
    /\ y = None
    /\ other = I1(Point(0, 0))
    /\ lower = None
    /\ upper = None
    /\ ret = NoReturn
    /\ raised = "none"
    /\ piece = "none"

InitPoint ==
    /\ pc = "start"
    /\ point \in Points
    /\ self = I1(point)
    /\ NoArgs

InitShape ==
    /\ pc = "start"
    /\ self \in Shapes
    /\ point = self.origin
    /\ NoArgs

CallPointReflect ==
    /\ pc = "start"
    /\ \E ax \in OptInts, ay \in OptInts :
        /\ x' = ax
        /\ y' = ay
        /\ ret' = Point_reflect(point, ax, ay)
    /\ raised' = "none"
    /\ pc' = "Point.reflect"
    /\ UNCHANGED <<piece, point, around, degrees, self, other, lower, upper>>

CallPointRotate ==
    /\ pc = "start"
    /\ \E a \in Points, d \in Degrees :
        /\ around' = a
        /\ degrees' = d
        /\ ret' = Point_rotate(point, a, d)
        /\ raised' = IF Point_rotate(point, a, d) = ValueError
                     THEN "ValueError" ELSE "none"
    /\ pc' = "Point.rotate"
    /\ UNCHANGED <<piece, point, x, y, self, other, lower, upper>>

CallShapeReflect ==
    /\ pc = "start"
    /\ \E ax \in OptInts, ay \in OptInts :
        /\ x' = ax
        /\ y' = ay
        /\ ret' = Shape_reflect(self, ax, ay)
    /\ raised' = "none"
    /\ pc' = "Shape.reflect"
    /\ UNCHANGED <<piece, point, around, degrees, self, other, lower, upper>>

CallShapeRotate ==
    /\ pc = "start"
    /\ \E a \in Origins, d \in Degrees :
        /\ around' = a
        /\ degrees' = d
        /\ ret' = Shape_rotate(self, a, d)
        /\ raised' = IF Shape_rotate(self, a, d) = ValueError
                     THEN "ValueError" ELSE "none"
    /\ pc' = "Shape.rotate"
    /\ UNCHANGED <<piece, point, x, y, self, other, lower, upper>>

CallShapeArrangements ==
    /\ pc = "start"
    /\ \E lo \in OptInts, up \in OptInts :
        /\ lower' = lo
        /\ upper' = up
        /\ ret' = Shape_arrangements(self, lo, up)
        /\ raised' = IF Frozenset_raises(Arrangements_valid(self, lo, up))
                     THEN "TypeError" ELSE "none"
    /\ pc' = "Shape.arrangements"
    /\ UNCHANGED <<piece, point, around, degrees, x, y, self, other>>

CallShapeCorners ==
    /\ pc = "start"
    /\ ret' = Shape_corners(self)
    /\ raised' = IF Shape_corners(self) = TypeError
                 THEN "TypeError" ELSE "none"
    /\ pc' = "Shape.corners"
    /\ UNCHANGED <<piece, point, around, degrees, x, y, self, other, lower, upper>>

CallShapeSides ==
    /\ pc = "start"
    /\ ret' = Shape_sides(self)
    /\ raised' = IF Shape_sides(self) = TypeError
                 THEN "TypeError" ELSE "none"
    /\ pc' = "Shape.sides"
    /\ UNCHANGED <<piece, point, around, degrees, x, y, self, other, lower, upper>>

CallShapeCanConnect ==
    /\ pc = "start"
    /\ \E o \in Shapes :
        /\ other' = o
        /\ ret' = Shape_can_connect(self, o)
        /\ raised' = IF Shape_corners(self) = TypeError
                        \/ Shape_sides(self) = TypeError
                     THEN "TypeError" ELSE "none"
    /\ pc' = "Shape.can_connect"
    /\ UNCHANGED <<piece, point, around, degrees, x, y, self, lower, upper>>

\* the Point argument `other` of is_corner and is_side is held in around
CallPointCorners ==
    /\ pc = "start"
    /\ ret' = Point_corners(point)
    /\ raised' = "none"
    /\ pc' = "Point.corners"
    /\ UNCHANGED <<piece, point, around, degrees, x, y, self, other, lower,
                   upper>>

CallPointSides ==
    /\ pc = "start"
    /\ ret' = Point_sides(point)
    /\ raised' = "none"
    /\ pc' = "Point.sides"
    /\ UNCHANGED <<piece, point, around, degrees, x, y, self, other, lower,
                   upper>>

CallPointIsCorner ==
    /\ pc = "start"
    /\ \E q \in Points :
        /\ around' = q
        /\ ret' = Point_is_corner(point, q)
    /\ raised' = "none"
    /\ pc' = "Point.is_corner"
    /\ UNCHANGED <<piece, point, degrees, x, y, self, other, lower, upper>>

CallPointIsSide ==
    /\ pc = "start"
    /\ \E q \in Points :
        /\ around' = q
        /\ ret' = Point_is_side(point, q)
    /\ raised' = "none"
    /\ pc' = "Point.is_side"
    /\ UNCHANGED <<piece, point, degrees, x, y, self, other, lower, upper>>

CallShapeIsWithin ==
    /\ pc = "start"
    /\ \E lo \in OptInts, up \in OptInts :
        /\ lower' = lo
        /\ upper' = up
        /\ ret' = Shape_is_within(self, lo, up)
    /\ raised' = "none"
    /\ pc' = "Shape.is_within"
    /\ UNCHANGED <<piece, point, around, degrees, x, y, self, other>>

\* a factory of the piece table called with the point as origin
CallShapeFactory ==
    /\ pc = "start"
    /\ \E n \in PieceNames :
        /\ piece' = n
        /\ ret' = Piece(n, point)
    /\ raised' = "none"
    /\ pc' = "Shape.factory"
    /\ UNCHANGED <<point, around, degrees, x, y, self, other, lower, upper>>

NextPoint ==
    \/ CallPointReflect
    \/ CallPointRotate
    \/ CallPointCorners
    \/ CallPointSides
    \/ CallPointIsCorner
    \/ CallPointIsSide

NextShape ==
    \/ CallShapeReflect
    \/ CallShapeRotate
    \/ CallShapeArrangements
    \/ CallShapeIsWithin

NextPiece == CallShapeFactory

NextAdj == CallShapeCorners \/ CallShapeSides \/ CallShapeCanConnect

\* calls on a point
SpecPoint == InitPoint /\ [][NextPoint]_vars

\* transformations of a shape
SpecShape == InitShape /\ [][NextShape]_vars

\* adjacency of shapes
SpecAdj == InitShape /\ [][NextAdj]_vars

\* the piece table
SpecPiece == InitPoint /\ [][NextPiece]_vars

Init == InitPoint \/ InitShape

Next == NextPoint \/ NextShape \/ NextAdj \/ NextPiece

Spec == Init /\ [][Next]_vars

(***************************************************************************)
(* Claims about Point.                                                     *)
(***************************************************************************)
\* the mirror image of coordinate c about the axis value v
Mirror(v, c) == v + (v - c)

\* C4: for every point P and every axis value v, 0 and negative values
\* included, P.reflect(x=v) is Point(v + (v - P.x), P.y) and P.reflect(y=v)
\* is Point(P.x, v + (v - P.y)); an omitted axis leaves its coordinate
\* unchanged.
C4_ReflectMirrors ==
    pc = "Point.reflect" =>
        ret = Point(IF x = None THEN point.x ELSE Mirror(x[1], point.x),
                    IF y = None THEN point.y ELSE Mirror(y[1], point.y))

\* C5: Point.rotate and Shape.rotate raise ValueError exactly when
\* degrees mod 360 is not one of 0, 90, 180, 270, and no other call of a
\* Point or Shape operation raises anything.
C5_OnlyRotateRaises ==
    /\ pc \in {"Point.rotate", "Shape.rotate"} =>
          /\ raised \in {"none", "ValueError"}
          /\ raised = "ValueError" <=> (degrees % 360) \notin {0, 90, 180, 270}
    /\ pc \notin {"Point.rotate", "Shape.rotate"} => raised = "none"

\* C6: rotating by 0 or by 360 degrees returns the point, four successive
\* quarter turns about the same pivot return the point, and a point rotated
\* about itself by any multiple of 90 degrees is unchanged.
C6_RotationIdentities ==
    pc = "Point.rotate" =>
        /\ degrees \in {0, 360} => raised = "none" /\ ret = point
        /\ (around = point /\ degrees % 90 = 0) =>
              raised = "none" /\ ret = point
        /\ degrees = 90 =>
              /\ raised = "none"
              /\ Point_rotate(Point_rotate(Point_rotate(ret, around, 90),
                                           around, 90), around, 90) = point

C6_Witness ==
    /\ pc = "Point.rotate"
    /\ degrees = 90
    /\ around # point
    /\ raised = "none"
    /\ ret # point

\* one quarter turn about the pivot a, as the claim writes it
QuarterTurn(p, a) == Point(a.x + (p.y - a.y), a.y - (p.x - a.x))

QuarterTurns(p, a, k) ==
    CASE k = 0 -> p
      [] k = 1 -> QuarterTurn(p, a)
      [] k = 2 -> QuarterTurn(QuarterTurn(p, a), a)
      [] k = 3 -> QuarterTurn(QuarterTurn(QuarterTurn(p, a), a), a)

\* C7: for degrees a multiple of 90, P.rotate(A, degrees) is the quarter turn
\* (x, y) -> (A.x + (y - A.y), A.y - (x - A.x)) applied (degrees mod 360) / 90
\* times; the result depends only on degrees mod 360, and Point(8, 10) about
\* Point(7, 7) goes to (10, 6), (6, 4) and (4, 8) for 90, 180 and 270 or -90.
C7_QuarterTurnComposition ==
    (pc = "Point.rotate" /\ degrees % 90 = 0) =>
        /\ raised = "none"
        /\ ret = QuarterTurns(point, around, (degrees % 360) \div 90)
        /\ ret = Point_rotate(point, around, degrees + 360)
        /\ ret = Point_rotate(point, around, degrees - 360)
        /\ (point = Point(8, 10) /\ around = Point(7, 7)) =>
              /\ degrees = 90 => ret = Point(10, 6)
              /\ degrees = 180 => ret = Point(6, 4)
              /\ degrees \in {270, 0 - 90} => ret = Point(4, 8)

C7_Witness ==
    /\ pc = "Point.rotate"
    /\ point = Point(8, 10)
    /\ around = Point(7, 7)
    /\ degrees = 0 - 90
    /\ ret = Point(4, 8)

(***************************************************************************)
(* Claims about Shape.                                                     *)
(***************************************************************************)
Abs(n) == IF n < 0 THEN 0 - n ELSE n

\* p and q are one unit apart along both axes
Diagonal(p, q) == Abs(p.x - q.x) = 1 /\ Abs(p.y - q.y) = 1

\* p and q are one unit apart along exactly one axis
Orthogonal(p, q) == Abs(p.x - q.x) + Abs(p.y - q.y) = 1

CornerTouch(s, o) ==
    \E a \in s.points.elems, b \in o.points.elems : Diagonal(a, b)

SideTouch(s, o) ==
    \E a \in s.points.elems, b \in o.points.elems : Orthogonal(a, b)

\* C1: for two shapes with no point in common, can_connect returns true iff
\* some point of the other shape is diagonally adjacent to a point of this
\* one and no point of the other shape is orthogonally adjacent to a point
\* of this one; a side touch makes it false even when a corner touch exists.
C1_CanConnectRule ==
    (pc = "Shape.can_connect"
        /\ self.points.elems \cap other.points.elems = {}) =>
        /\ raised = "none"
        /\ ret <=> (CornerTouch(self, other) /\ ~SideTouch(self, other))

\* C2: can_connect returns the same boolean whichever shape is the
\* receiver, for every pair of shapes (any non-empty point sets containing
\* their origins).
C2_CanConnectSymmetric ==
    pc = "Shape.can_connect" =>
        /\ raised = "none"
        /\ ret \in BOOLEAN
        /\ ret = Shape_can_connect(other, self)

\* the lattice points within two units of the bounding box of a shape
Neighbourhood(s) ==
    LET xs == {p.x : p \in s.points.elems}
        ys == {p.y : p \in s.points.elems}
    IN  {Point(a, b) : a \in (Min(xs) - 2)..(Max(xs) + 2),
                       b \in (Min(ys) - 2)..(Max(ys) + 2)}

\* the lattice points that are diagonal to a member of s, are no member of
\* s and are orthogonal to no member of s
OuterCorners(s) ==
    {q \in Neighbourhood(s) :
        /\ \E p \in s.points.elems : Diagonal(p, q)
        /\ q \notin s.points.elems
        /\ ~ \E p \in s.points.elems : Orthogonal(p, q)}

\* the lattice points that are orthogonal to a member of s and no member
OuterSides(s) ==
    {q \in Neighbourhood(s) :
        /\ \E p \in s.points.elems : Orthogonal(p, q)
        /\ q \notin s.points.elems}

C9_TransformsPreserve ==
    /\ pc = "Shape.reflect" =>
          /\ raised = "none"
          /\ ret.origin = Point_reflect(self.origin, x, y)
          /\ Shape_size(ret) = Shape_size(self)
          /\ ret.origin \in ret.points.elems
    /\ (pc = "Shape.rotate" /\ degrees % 90 = 0) =>
          /\ raised = "none"
          /\ ret.origin = Point_rotate(self.origin, around, degrees)
          /\ Shape_size(ret) = Shape_size(self)
          /\ ret.origin \in ret.points.elems

C9_Witness ==
    /\ pc = "Shape.reflect"
    /\ x \notin {None, Some(0)}
    /\ y = Some(0)
    /\ Shape_size(self) = 5
    /\ ret.origin # self.origin

\* every coordinate of t is within the bounds that were given
InBounds(t, lo, up) ==
    \A p \in t.points.elems :
        /\ lo = None \/ (lo[1] <= p.x /\ lo[1] <= p.y)
        /\ up = None \/ (p.x <= up[1] /\ p.y <= up[1])

\* C3: arrangements() with no bounds returns exactly 1 shape for I1 and X
\* and exactly 8 shapes for F and N, for every origin.
C3_ArrangementCounts ==
    (pc = "Shape.arrangements" /\ lower = None /\ upper = None) =>
        /\ raised = "none"
        /\ self \in {I1(self.origin), X(self.origin)} =>
              Cardinality(ret.elems) = 1
        /\ self \in {F(self.origin), N(self.origin)} =>
              Cardinality(ret.elems) = 8

\* C10: arrangements(lower, upper) returns exactly the members of the
\* unbounded orbit that lie within the bounds, an omitted bound imposing no
\* constraint and an explicit 0 being the bound 0.
C10_ArrangementsFiltered ==
    pc = "Shape.arrangements" =>
        /\ raised = "none"
        /\ ret.elems = {t \in Arrangements_valid(self, None, None) :
                           InBounds(t, lower, upper)}

\* C11: is_within(lower, upper) is true iff every coordinate of every point
\* is within the bounds that were given; an omitted bound imposes nothing,
\* so is_within() is always true, and an explicit 0 is the bound 0.
C11_IsWithinBounds ==
    pc = "Shape.is_within" =>
        /\ raised = "none"
        /\ ret <=> InBounds(self, lower, upper)
        /\ (lower = None /\ upper = None) => ret = TRUE

\* a shape with a negative coordinate fails the explicit lower bound 0
C11_Witness ==
    /\ pc = "Shape.is_within"
    /\ lower = Some(0)
    /\ upper = None
    /\ \E p \in self.points.elems : p.x < 0 \/ p.y < 0
    /\ ret = FALSE

\* the four diagonal neighbours of p
FourCorners(p) ==
    {Point(p.x + dx, p.y + dy) : dx \in {0 - 1, 1}, dy \in {0 - 1, 1}}

\* the four orthogonal neighbours of p
FourSides(p) ==
    {Point(p.x + 1, p.y), Point(p.x - 1, p.y),
     Point(p.x, p.y + 1), Point(p.x, p.y - 1)}

\* C12: Q is in P.corners() iff P.is_corner(Q) iff Q.is_corner(P), and
\* likewise for sides; P.corners() is exactly the four points (x+-1, y+-1)
\* and P.sides() exactly (x+-1, y), (x, y+-1), so no point is both a corner
\* and a side of P and P is in neither set.
C12_PointAdjacency ==
    /\ pc = "Point.corners" =>
          /\ ret.elems = FourCorners(point)
          /\ Cardinality(ret.elems) = 4
          /\ ret.elems \cap Point_sides(point).elems = {}
          /\ point \notin ret.elems
          /\ point = Point(4, 4) =>
                ret.elems = {Point(5, 5), Point(3, 5), Point(3, 3), Point(5, 3)}
    /\ pc = "Point.sides" =>
          /\ ret.elems = FourSides(point)
          /\ Cardinality(ret.elems) = 4
          /\ ret.elems \cap Point_corners(point).elems = {}
          /\ point \notin ret.elems
          /\ point = Point(4, 4) =>
                ret.elems = {Point(5, 4), Point(4, 5), Point(3, 4), Point(4, 3)}
    /\ pc = "Point.is_corner" =>
          /\ ret <=> around \in Point_corners(point).elems
          /\ ret <=> Point_is_corner(around, point)
          /\ ret <=> Diagonal(point, around)
    /\ pc = "Point.is_side" =>
          /\ ret <=> around \in Point_sides(point).elems
          /\ ret <=> Point_is_side(around, point)
          /\ ret <=> Orthogonal(point, around)

C12_Witness ==
    /\ pc = "Point.is_corner"
    /\ point = Point(4, 4)
    /\ around = Point(5, 5)
    /\ ret = TRUE

\* C13: the piece table has exactly twenty-one factories; each returns a
\* shape whose origin is the given origin, whose points include it and whose
\* size is between 1 and 5, and every size from 1 to 5 occurs.
C13_PieceTable ==
    pc = "Shape.factory" =>
        /\ ret.origin = point
        /\ point \in ret.points.elems
        /\ Shape_size(ret) \in 1..5
        /\ \A k \in 1..5 :
              \E n \in PieceNames : Shape_size(Piece(n, point)) = k
        /\ Cardinality(PieceNames) = 21

\* C14: every shape in arrangements(lower, upper) has the origin and the
\* size of the receiver and holds its origin; the result has at most 8
\* members, and the receiver (its origin and points) is one of them
\* whenever it is within the bounds.
C14_ArrangementsKeepOrigin ==
    pc = "Shape.arrangements" =>
        /\ raised = "none"
        /\ \A t \in ret.elems :
              /\ t.origin = self.origin
              /\ Shape_size(t) = Shape_size(self)
              /\ t.origin \in t.points.elems
        /\ Cardinality(ret.elems) <= 8
        /\ Shape_is_within(self, lower, upper) =>
              \E t \in ret.elems :
                  t.origin = self.origin
                      /\ t.points.elems = self.points.elems

\* the image of a set of points under rotate(a, d)
RotatedPoints(S, a, d) == {Point_rotate(p, a, d) : p \in S}

\* C15: for d a multiple of 90, the sides and the corners of S.rotate(A, d)
\* are the images under rotate(A, d) of the sides and corners of S, and
\* S.rotate(A, d).can_connect(T.rotate(A, d)) equals S.can_connect(T).
C15_RotationKeepsAdjacency ==
    (pc = "Shape.rotate" /\ degrees % 90 = 0) =>
        /\ Shape_sides(ret) # TypeError
        /\ Shape_sides(self) # TypeError
        /\ Shape_sides(ret).elems =
              RotatedPoints(Shape_sides(self).elems, around, degrees)
        /\ Shape_corners(ret).elems =
              RotatedPoints(Shape_corners(self).elems, around, degrees)
        /\ \A t \in FreeShapes :
              Shape_can_connect(ret, Shape_rotate(t, around, degrees))
                  = Shape_can_connect(self, t)

====
